---- MODULE Spec2Model ----
(***************************************************************************)
(* The OF2 workflow of of2_cli.py: run_of2 filters the parcels dataset by  *)
(* a where clause, spatially selects the storm catchment and storm         *)
(* cleanout features that intersect the filtered parcels, merges the two   *)
(* selections into one output feature class through a field mapping that   *)
(* carries OrigPlan and DocLink, and removes records with an identical     *)
(* OrigPlan.  The geodatabase and the geoprocessing tools (arcpy) are the  *)
(* program's environment: the model keeps a store of datasets and layers   *)
(* and gives each tool the effect its call site relies on.                 *)
(***************************************************************************)
EXTENDS Naturals, Sequences, FiniteSets, TLC

VARIABLES
    pc,             \* position of run_of2
    args,           \* the arguments of the run_of2 call
    env,            \* the geoprocessing environment settings in force (arcpy.env)
    datasets,       \* the store: resolved path -> dataset or NoDataset
    layers,         \* the store: layer name -> layer or NoLayer
    field_mappings, \* the local field_mappings of run_of2
    out_path,       \* the local out_path of run_of2
    merged,         \* the rows Merge wrote, as they were before DeleteIdentical
    result,         \* what run_of2 returned
    err,            \* the exception that left run_of2
    calls,          \* the arcpy tools invoked so far, in order, each with the path or layers it is given
    log,            \* what was logged
    initial,        \* the datasets as they were when run_of2 was called
    history,        \* how the earlier run_of2 calls of the process ended
    process         \* main: its position, exit code and standard output

vars == <<pc, args, env, datasets, layers, field_mappings, out_path, merged,
          result, err, calls, log, initial, history, process>>

(***************************************************************************)
(* Bounds of the model.                                                    *)
(***************************************************************************)
\* Spec: rows per storm dataset
MaxRows == 1
\* SpecData: rows of the catchment and of the cleanout dataset
MaxCatch == 2
MaxClean == 3
\* SpecDedup: rows of the merge output handed to the dedup step
MaxOut == 3

(***************************************************************************)
(* Values.                                                                 *)
(***************************************************************************)
NoDataset == [kind |-> "NoDataset"]
NoLayer == [kind |-> "NoLayer"]
NoError == [kind |-> "none", name |-> <<>>]
NoPath == <<>>
\* run_of2 called as a function, not through main
NoProcess == [pc |-> "none", argv |-> "", exit_code |-> <<>>, stdout |-> <<>>, stderr |-> <<>>]
Null == <<>>

\* the parcel geometries a storm feature may lie on
Geoms == {"g1", "g2"}
\* the values of the OrigPlan attribute
PlanValues == {<<1>>, <<2>>}
\* the fields build_field_mappings asks for; a storm dataset has any of them
StormFields == {"OrigPlan", "DocLink"}
\* the parcels dataset: two parcels, one on each geometry
ParcelRows ==
    << [oid |-> 1, geom |-> "g1", vals |-> [f \in {"PARCEL_NUMBER"} |-> "1"]],
       [oid |-> 2, geom |-> "g2", vals |-> [f \in {"PARCEL_NUMBER"} |-> "2"]] >>
\* where clauses: PARCEL_NUMBER = '1' matches one parcel, PARCEL_NUMBER = '9' none
Expressions == {"1", "9"}

SeqsUpTo(S, n) == UNION {[1..k -> S] : k \in 0..n}

RECURSIVE Concat(_)
Concat(ss) == IF ss = <<>> THEN <<>> ELSE Head(ss) \o Concat(Tail(ss))

(***************************************************************************)
(* Paths.  A path is a sequence of tokens: "/" or a name.                  *)
(***************************************************************************)
Workspace == <<"/", "Default.gdb">>
ParcelsLayer == "parcels_layer"
CatchmentLayer == "storm_catchment_layer"
CleanoutLayer == "storm_cleanout_layer"
LayerNames == {ParcelsLayer, CatchmentLayer, CleanoutLayer}

\* str.lower on a token
lower(tok) ==
    CASE tok = "HTTP://" -> "http://"
      [] tok = "HTTPS://" -> "https://"
      [] tok = "Http://" -> "http://"
      [] OTHER -> tok

\* os.path.isabs
isabs(p) == Len(p) > 0 /\ p[1] = "/"

\* os.path.join of two paths
join(a, b) ==
    IF isabs(b) THEN b
    ELSE IF a = <<>> \/ a[Len(a)] = "/" THEN a \o b
    ELSE a \o <<"/">> \o b

\* os.path.dirname is non-empty exactly when the path holds a separator
has_dirname(p) == \E i \in 1..Len(p) : p[i] = "/"

\* resolve_dataset, but the URL prefix is looked for without lower()
resolve_dataset_case_sensitive(path_or_name, workspace_gdb) ==
    IF isabs(path_or_name)
       \/ (Len(path_or_name) > 0 /\ path_or_name[1] \in {"http://", "https://"})
    THEN path_or_name
    ELSE join(workspace_gdb, path_or_name)

\* lines 24-29
resolve_dataset(path_or_name, workspace_gdb) ==
    IF isabs(path_or_name)
       \/ (Len(path_or_name) > 0 /\ lower(path_or_name[1]) \in {"http://", "https://"})
    THEN path_or_name
    ELSE join(workspace_gdb, path_or_name)

\* lines 121-124 of run_of2
resolve_output(output_fc, workspace_gdb) ==
    IF has_dirname(output_fc) THEN output_fc ELSE join(workspace_gdb, output_fc)

ParcelsRef == <<"Parcels">>
CatchmentRef == <<"Storm Catchment">>
CleanoutRef == <<"Storm Cleanout">>
OutputRef == <<"OF_property_edit">>

Paths == { resolve_dataset(ParcelsRef, Workspace),
           resolve_dataset(CatchmentRef, Workspace),
           resolve_dataset(CleanoutRef, Workspace),
           resolve_output(OutputRef, Workspace) }

(***************************************************************************)
(* The store's tools, as far as run_of2 relies on them.                    *)
(***************************************************************************)
\* arcpy.Exists on a dataset path
Exists(path) == path \in DOMAIN datasets /\ datasets[path] # NoDataset

\* arcpy.Exists on a layer name
LayerExists(name) == layers[name] # NoLayer

\* a where clause: "" keeps every row, otherwise PARCEL_NUMBER = '<where>'
Satisfies(row, where) ==
    where = "" \/ ("PARCEL_NUMBER" \in DOMAIN row.vals /\ row.vals["PARCEL_NUMBER"] = where)

\* ActiveRows, but a selection that holds nothing counts as no selection
ActiveRows_empty_selection(lyr) ==
    LET ds == datasets[lyr.ds]
    IN  IF ds = NoDataset THEN <<>>
        ELSE SelectSeq(ds.rows,
                 LAMBDA r : Satisfies(r, lyr.where)
                            /\ ((lyr.hasSel /\ lyr.sel # {}) => r.oid \in lyr.sel))

\* the rows a layer hands to a tool: its definition query, then its selection
ActiveRows(lyr) ==
    LET ds == datasets[lyr.ds]
    IN  IF ds = NoDataset THEN <<>>
        ELSE SelectSeq(ds.rows,
                 LAMBDA r : Satisfies(r, lyr.where) /\ (lyr.hasSel => r.oid \in lyr.sel))

\* the fields a layer shows: those of its dataset
LayerFields(name) ==
    IF layers[name] = NoLayer \/ datasets[layers[name].ds] = NoDataset THEN {}
    ELSE datasets[layers[name].ds].fields

\* two geometries intersect
Intersects(g, h) == g = h

\* one tool call: the tool, the path or layer names it is given, and the
\* environment settings it runs under
Called(op, target) == [op |-> op, target |-> target, env |-> env]

\* the merge rule "First" on one output row: the row comes from one input, so the
\* value is that of the rule's input field of that input, or Null when it has none
MergeValue(rule, src, row) ==
    LET mine == SelectSeq(rule.inputs, LAMBDA c : c[1] = src)
    IN  IF mine = <<>> THEN Null ELSE row.vals[mine[1][2]]

\* the output fields of a FieldMappings object
OutputFields(maps) == {maps[i].name : i \in 1..Len(maps)}

RuleNamed(maps, n) == maps[CHOOSE i \in 1..Len(maps) : maps[i].name = n]

\* arcpy.management.Merge: the active rows of each input, in input order, each
\* carrying the mapped fields; the output numbers its rows anew
MergeRows(inputs, maps) ==
    LET part(src) ==
            LET rs == ActiveRows(layers[src])
            IN  [i \in 1..Len(rs) |->
                    [geom |-> rs[i].geom, from |-> <<src, rs[i].oid>>,
                     vals |-> [n \in OutputFields(maps) |->
                                  MergeValue(RuleNamed(maps, n), src, rs[i])]]]
        all == Concat([k \in 1..Len(inputs) |-> part(inputs[k])])
    IN  [i \in 1..Len(all) |->
            [oid |-> i, geom |-> all[i].geom, from |-> all[i].from, vals |-> all[i].vals]]

\* arcpy.management.DeleteIdentical: of the rows equal on every given field the
\* one met first stays
DeleteIdentical(rows, fields) ==
    LET same(a, b) == \A f \in fields : a.vals[f] = b.vals[f]
        kept[i \in 0..Len(rows)] ==
            IF i = 0 THEN <<>>
            ELSE IF \E j \in 1..(i - 1) : same(rows[j], rows[i]) THEN kept[i - 1]
            ELSE Append(kept[i - 1], rows[i])
    IN  kept[Len(rows)]

\* SelectByLocation, but the selecting layer is not looked at
SelectByLocation_all(lyr, select_features) ==
    LET ds == datasets[lyr.ds]
        all == IF ds = NoDataset THEN <<>> ELSE ds.rows
    IN  {all[i].oid : i \in {k \in 1..Len(all) : Satisfies(all[k], lyr.where)}}

\* arcpy.management.SelectLayerByLocation, INTERSECT, NEW_SELECTION: the rows of
\* the layer that intersect an active row of the selecting layer
SelectByLocation(lyr, select_features) ==
    LET ds == datasets[lyr.ds]
        refs == ActiveRows(select_features)
        all == IF ds = NoDataset THEN <<>> ELSE ds.rows
    IN  {all[i].oid : i \in {k \in 1..Len(all) :
            /\ Satisfies(all[k], lyr.where)
            /\ \E j \in 1..Len(refs) : Intersects(all[k].geom, refs[j].geom)}}

(***************************************************************************)
(* build_field_mappings, lines 40-64.                                      *)
(***************************************************************************)
\* line 43
Desired == << <<"OrigPlan", "Original Plan">>, <<"DocLink", "Document Link">> >>

\* input_fields, but the candidates are collected last input first
input_fields_reversed(inputs, field_name) ==
    LET has == SelectSeq(inputs, LAMBDA src : field_name \in LayerFields(src))
    IN  [i \in 1..Len(has) |-> <<has[Len(has) + 1 - i], field_name>>]

\* lines 46-54: fmap.addInputField raises for an input without the field, and
\* the input is skipped
input_fields(inputs, field_name) ==
    LET has == SelectSeq(inputs, LAMBDA src : field_name \in LayerFields(src))
    IN  [i \in 1..Len(has) |-> <<has[i], field_name>>]

\* field_map, but the alias is set only when several inputs are merged
field_map_unaliased(field_name, alias, cands) ==
    [name |-> field_name, alias |-> IF Len(cands) > 1 THEN alias ELSE field_name,
     inputs |-> cands, mergeRule |-> "First"]

\* lines 57-61
field_map(field_name, alias, cands) ==
    [name |-> field_name, alias |-> alias, inputs |-> cands, mergeRule |-> "First"]

\* lines 45-62: one desired field after the other; the first one no input has
\* raises, and the field mappings built so far are dropped with the frame
RECURSIVE add_field_maps(_, _, _)
add_field_maps(desired, inputs, maps) ==
    IF desired = <<>> THEN [ok |-> TRUE, maps |-> maps, field |-> ""]
    ELSE LET field_name == Head(desired)[1]
             alias == Head(desired)[2]
             cands == input_fields(inputs, field_name)
         IN  IF cands = <<>>
             THEN [ok |-> FALSE, maps |-> <<>>, field |-> field_name]
             ELSE add_field_maps(Tail(desired), inputs,
                                 Append(maps, field_map(field_name, alias, cands)))

\* build_field_mappings, but a field no input has is left out of the mappings
RECURSIVE add_present_field_maps(_, _, _)
add_present_field_maps(desired, inputs, maps) ==
    IF desired = <<>> THEN [ok |-> TRUE, maps |-> maps, field |-> ""]
    ELSE LET field_name == Head(desired)[1]
             alias == Head(desired)[2]
             cands == input_fields(inputs, field_name)
         IN  add_present_field_maps(Tail(desired), inputs,
                 IF cands = <<>> THEN maps
                 ELSE Append(maps, field_map(field_name, alias, cands)))

build_field_mappings_lenient(inputs) == add_present_field_maps(Desired, inputs, <<>>)

build_field_mappings(inputs) == add_field_maps(Desired, inputs, <<>>)

(***************************************************************************)
(* run_of2, lines 67-138.                                                  *)
(***************************************************************************)
\* the directory the process runs in
Cwd == <<"/", "home">>

\* abspath, but the path is left as it was given
abspath_as_given(p) == p

\* os.path.abspath
abspath(p) == IF isabs(p) THEN p ELSE join(Cwd, p)

\* line 77
workspace_gdb == abspath(args.workspace_gdb)

\* line 78
scratch_gdb ==
    IF args.scratch_gdb # NoPath THEN abspath(args.scratch_gdb) ELSE workspace_gdb

\* the environment outside run_of2
AmbientEnv ==
    [workspace |-> NoPath, scratchWorkspace |-> NoPath, overwriteOutput |-> FALSE,
     parallelProcessingFactor |-> ""]

\* lines 80-85: the settings EnvManager puts in force
ManagedEnv ==
    [workspace |-> workspace_gdb, scratchWorkspace |-> scratch_gdb,
     overwriteOutput |-> TRUE, parallelProcessingFactor |-> "100%"]

\* lines 87-89
parcels_path == resolve_dataset(args.parcels, workspace_gdb)
sc_path == resolve_dataset(args.storm_catchment, workspace_gdb)
so_path == resolve_dataset(args.storm_cleanout, workspace_gdb)

\* Raise, but the environment settings stay in force
Raise_leaking(kind, name) ==
    /\ pc' = "failed"
    /\ err' = [kind |-> kind, name |-> name]
    /\ env' = env
    /\ UNCHANGED <<result, args, initial, history, process>>

\* Raise, but the exception is noted and the step is tried again
Raise_and_retry(kind, name) ==
    /\ pc' = pc
    /\ err' = [kind |-> kind, name |-> name]
    /\ env' = env
    /\ UNCHANGED <<result, args, initial, history, process>>

\* an exception leaves the with block of line 80: EnvManager.__exit__ restores the
\* environment and the exception goes on to the caller
Raise(kind, name) ==
    /\ pc' = "failed"
    /\ err' = [kind |-> kind, name |-> name]
    /\ env' = AmbientEnv
    /\ UNCHANGED <<result, args, initial, history, process>>

\* a step that went through
Goto(next) ==
    /\ pc' = next
    /\ UNCHANGED <<err, env, result, args, initial, history, process>>

\* lines 77-85
Configure ==
    /\ pc = "idle"
    /\ pc' = "validate"
    /\ env' = ManagedEnv
    /\ UNCHANGED <<args, datasets, layers, field_mappings, out_path, merged, result,
                   err, calls, log, initial, history, process>>

\* first_missing, but the datasets are looked at in the order of the parameters
first_missing_by_parameter ==
    IF ~Exists(sc_path) THEN <<"Storm Catchment", sc_path>>
    ELSE IF ~Exists(so_path) THEN <<"Storm Cleanout", so_path>>
    ELSE IF ~Exists(parcels_path) THEN <<"Parcels", parcels_path>>
    ELSE <<>>

\* lines 87-96: the first dataset that does not exist raises
first_missing ==
    IF ~Exists(parcels_path) THEN <<"Parcels", parcels_path>>
    ELSE IF ~Exists(sc_path) THEN <<"Storm Catchment", sc_path>>
    ELSE IF ~Exists(so_path) THEN <<"Storm Cleanout", so_path>>
    ELSE <<>>

Validate ==
    /\ pc = "validate"
    /\ LET checked == IF ~Exists(parcels_path) THEN <<parcels_path>>
                      ELSE IF ~Exists(sc_path) THEN <<parcels_path, sc_path>>
                      ELSE <<parcels_path, sc_path, so_path>>
       IN  calls' = calls \o [i \in 1..Len(checked) |-> Called("Exists", checked[i])]
    /\ IF first_missing # <<>>
       THEN Raise("DatasetNotFound", first_missing)
       ELSE Goto("parcels_layer")
    /\ UNCHANGED <<datasets, layers, field_mappings, out_path, merged, log>>

\* ensure_layer, but the layer made keeps the definition query of the layer it replaces
ensure_layer_stale_query(dataset_path, layer_name, where, outcome, next) ==
    LET existed == LayerExists(layer_name)
        probe == <<Called("Exists", <<layer_name>>)>>
        delete == IF existed THEN <<Called("Delete", <<layer_name>>)>> ELSE <<>>
        make == <<Called("MakeFeatureLayer", <<layer_name>>)>>
    IN  CASE outcome = "delete_fails" ->
               /\ existed
               /\ calls' = calls \o probe \o delete
               /\ layers' = layers
               /\ Raise("EngineFailure", "Delete")
          [] outcome = "make_fails" ->
               /\ calls' = calls \o probe \o delete \o make
               /\ layers' = [layers EXCEPT ![layer_name] = NoLayer]
               /\ Raise("EngineFailure", "MakeFeatureLayer")
          [] OTHER ->
               /\ Exists(dataset_path)
               /\ calls' = calls \o probe \o delete \o make
               /\ layers' = [layers EXCEPT ![layer_name] =
                     [ds |-> dataset_path,
                      where |-> IF existed THEN layers[layer_name].where ELSE where,
                      hasSel |-> FALSE, sel |-> {}]]
               /\ Goto(next)

\* ensure_layer, but a layer that exists under the name is used as it is
ensure_layer_reusing(dataset_path, layer_name, where, outcome, next) ==
    LET existed == LayerExists(layer_name)
        probe == <<Called("Exists", <<layer_name>>)>>
        make == <<Called("MakeFeatureLayer", <<layer_name>>)>>
    IN  CASE outcome = "delete_fails" ->
               /\ existed
               /\ calls' = calls \o probe
               /\ layers' = layers
               /\ Raise("EngineFailure", "Delete")
          [] outcome = "make_fails" ->
               /\ calls' = calls \o probe \o make
               /\ layers' = [layers EXCEPT ![layer_name] = NoLayer]
               /\ Raise("EngineFailure", "MakeFeatureLayer")
          [] OTHER ->
               /\ Exists(dataset_path)
               /\ calls' = calls \o probe \o (IF existed THEN <<>> ELSE make)
               /\ layers' = [layers EXCEPT ![layer_name] =
                     IF existed THEN layers[layer_name]
                     ELSE [ds |-> dataset_path, where |-> where, hasSel |-> FALSE, sel |-> {}]]
               /\ Goto(next)

\* lines 32-37
ensure_layer(dataset_path, layer_name, where, outcome, next) ==
    LET existed == LayerExists(layer_name)
        probe == <<Called("Exists", <<layer_name>>)>>
        delete == IF existed THEN <<Called("Delete", <<layer_name>>)>> ELSE <<>>
        make == <<Called("MakeFeatureLayer", <<layer_name>>)>>
    IN  CASE outcome = "delete_fails" ->
               /\ existed
               /\ calls' = calls \o probe \o delete
               /\ layers' = layers
               /\ Raise("EngineFailure", "Delete")
          [] outcome = "make_fails" ->
               /\ calls' = calls \o probe \o delete \o make
               /\ layers' = [layers EXCEPT ![layer_name] = NoLayer]
               /\ Raise("EngineFailure", "MakeFeatureLayer")
          [] OTHER ->
               /\ Exists(dataset_path)
               /\ calls' = calls \o probe \o delete \o make
               /\ layers' = [layers EXCEPT ![layer_name] =
                     [ds |-> dataset_path, where |-> where, hasSel |-> FALSE, sel |-> {}]]
               /\ Goto(next)

LayerOutcomes == {"ok", "delete_fails", "make_fails"}

\* line 99
MakeParcelsLayer ==
    /\ pc = "parcels_layer"
    /\ \E outcome \in LayerOutcomes :
          ensure_layer(parcels_path, ParcelsLayer, args.expression, outcome, "sc_layer")
    /\ UNCHANGED <<datasets, field_mappings, out_path, merged, log>>

\* line 100
MakeCatchmentLayer ==
    /\ pc = "sc_layer"
    /\ \E outcome \in LayerOutcomes :
          ensure_layer(sc_path, CatchmentLayer, "", outcome, "so_layer")
    /\ UNCHANGED <<datasets, field_mappings, out_path, merged, log>>

\* line 101
MakeCleanoutLayer ==
    /\ pc = "so_layer"
    /\ \E outcome \in LayerOutcomes :
          ensure_layer(so_path, CleanoutLayer, "", outcome, "select")
    /\ UNCHANGED <<datasets, field_mappings, out_path, merged, log>>

\* lines 104-109
SpatialSelect ==
    /\ pc = "select"
    /\ calls' = Append(calls, Called("SelectLayerByLocation", <<CatchmentLayer, CleanoutLayer>>))
    /\ \E ok \in BOOLEAN :
          IF ok
          THEN /\ layers' = [n \in LayerNames |->
                     IF n \in {CatchmentLayer, CleanoutLayer}
                     THEN [layers[n] EXCEPT !.hasSel = TRUE,
                              !.sel = SelectByLocation(layers[n], layers[ParcelsLayer])]
                     ELSE layers[n]]
               /\ Goto("count")
          ELSE /\ layers' = layers
               /\ Raise("EngineFailure", "SelectLayerByLocation")
    /\ UNCHANGED <<datasets, field_mappings, out_path, merged, log>>

\* lines 112-114
Diagnostics ==
    /\ pc = "count"
    /\ calls' = calls \o <<Called("GetCount", <<CatchmentLayer>>), Called("GetCount", <<CleanoutLayer>>)>>
    /\ log' = Append(log, <<"info", Len(ActiveRows(layers[CatchmentLayer])),
                                     Len(ActiveRows(layers[CleanoutLayer]))>>)
    /\ Goto("plan")
    /\ UNCHANGED <<datasets, layers, field_mappings, out_path, merged>>

\* BuildPlan, but what is at the output path is deleted before the plan is built
BuildPlan_after_cleanup ==
    /\ pc = "plan"
    /\ LET built == build_field_mappings(<<CatchmentLayer, CleanoutLayer>>)
           path == resolve_output(args.output_fc, workspace_gdb)
       IN  /\ calls' = Append(calls, Called("Delete", path))
           /\ datasets' = [datasets EXCEPT ![path] = NoDataset]
           /\ IF built.ok
              THEN field_mappings' = built.maps /\ Goto("output")
              ELSE field_mappings' = field_mappings /\ Raise("SchemaMismatch", built.field)
    /\ UNCHANGED <<layers, out_path, merged, log>>

\* lines 117-118
BuildPlan ==
    /\ pc = "plan"
    /\ LET built == build_field_mappings(<<CatchmentLayer, CleanoutLayer>>)
       IN  IF built.ok
           THEN field_mappings' = built.maps /\ Goto("output")
           ELSE field_mappings' = field_mappings /\ Raise("SchemaMismatch", built.field)
    /\ UNCHANGED <<datasets, layers, out_path, merged, calls, log>>

\* PrepareOutput, but what is at the output path is left there
PrepareOutput_keeping ==
    /\ pc = "output"
    /\ out_path' = resolve_output(args.output_fc, workspace_gdb)
    /\ calls' = calls
    /\ datasets' = datasets
    /\ Goto("merge")
    /\ UNCHANGED <<layers, field_mappings, merged, log>>

\* lines 121-127
PrepareOutput ==
    /\ pc = "output"
    /\ LET path == resolve_output(args.output_fc, workspace_gdb)
       IN  /\ out_path' = path
           /\ IF Exists(path)
              THEN \E ok \in BOOLEAN :
                     /\ calls' = calls \o <<Called("Exists", path), Called("Delete", path)>>
                     /\ IF ok
                        THEN datasets' = [datasets EXCEPT ![path] = NoDataset] /\ Goto("merge")
                        ELSE datasets' = datasets /\ Raise("EngineFailure", "Delete")
              ELSE /\ calls' = Append(calls, Called("Exists", path))
                   /\ datasets' = datasets
                   /\ Goto("merge")
    /\ UNCHANGED <<layers, field_mappings, merged, log>>

\* Merge, but the rows are appended to the first input's dataset
Merge_appending ==
    /\ pc = "merge"
    /\ calls' = Append(calls, Called("Merge", out_path))
    /\ \E ok \in BOOLEAN :
          IF ok
          THEN LET rows == MergeRows(<<CatchmentLayer, CleanoutLayer>>, field_mappings)
               IN  /\ datasets' = [datasets EXCEPT ![sc_path] =
                          [fields |-> OutputFields(field_mappings),
                           rows |-> (IF Exists(sc_path) THEN datasets[sc_path].rows
                                     ELSE <<>>) \o rows]]
                   /\ merged' = rows
                   /\ Goto("dedup")
          ELSE /\ UNCHANGED <<datasets, merged>>
               /\ Raise("EngineFailure", "Merge")
    /\ UNCHANGED <<layers, field_mappings, out_path, log>>

\* lines 129-130
Merge ==
    /\ pc = "merge"
    /\ calls' = Append(calls, Called("Merge", out_path))
    /\ \E ok \in BOOLEAN :
          IF ok
          THEN LET rows == MergeRows(<<CatchmentLayer, CleanoutLayer>>, field_mappings)
               IN  /\ datasets' = [datasets EXCEPT ![out_path] =
                          [fields |-> OutputFields(field_mappings), rows |-> rows]]
                   /\ merged' = rows
                   /\ Goto("dedup")
          ELSE /\ UNCHANGED <<datasets, merged>>
               /\ Raise("EngineFailure", "Merge")
    /\ UNCHANGED <<layers, field_mappings, out_path, log>>

\* line 133: the field looked for among the names ListFields gives
DedupKey == "OrigPlan"

\* has_dedup_key, but the name is looked for in upper case
has_dedup_key_upper(fields) == "ORIGPLAN" \in fields

has_dedup_key(fields) == DedupKey \in fields

\* dedup_fields, but the other mapped field
dedup_fields_doclink == {"DocLink"}

\* line 134: the fields handed to DeleteIdentical
dedup_fields == {"OrigPlan"}

\* lines 133-136
Dedup ==
    /\ pc = "dedup"
    /\ IF has_dedup_key(datasets[out_path].fields)
       THEN \E ok \in BOOLEAN :
              /\ calls' = calls \o <<Called("ListFields", out_path),
                                     Called("DeleteIdentical", out_path)>>
              /\ log' = log
              /\ IF ok
                 THEN /\ datasets' = [datasets EXCEPT ![out_path].rows =
                                         DeleteIdentical(datasets[out_path].rows, dedup_fields)]
                      /\ Goto("return")
                 ELSE /\ datasets' = datasets
                      /\ Raise("EngineFailure", "DeleteIdentical")
       ELSE /\ calls' = Append(calls, Called("ListFields", out_path))
            /\ log' = Append(log, <<"warning", "skipping DeleteIdentical">>)
            /\ datasets' = datasets
            /\ Goto("return")
    /\ UNCHANGED <<layers, field_mappings, out_path, merged>>

\* line 138: the with block is left and the path returned
Return ==
    /\ pc = "return"
    /\ pc' = "done"
    /\ result' = out_path
    /\ env' = AmbientEnv
    /\ UNCHANGED <<args, datasets, layers, field_mappings, out_path, merged, err,
                   calls, log, initial, history, process>>

Next ==
    \/ Configure
    \/ Validate
    \/ MakeParcelsLayer
    \/ MakeCatchmentLayer
    \/ MakeCleanoutLayer
    \/ SpatialSelect
    \/ Diagnostics
    \/ BuildPlan
    \/ PrepareOutput
    \/ Merge
    \/ Dedup
    \/ Return

(***************************************************************************)
(* The states run_of2 is called in.                                        *)
(***************************************************************************)
\* a storm dataset of the given fields; shapes gives each row's geometry and plan
StormDataset(name, fields, shapes) ==
    [fields |-> fields,
     rows |-> [i \in 1..Len(shapes) |->
                 [oid |-> i, geom |-> shapes[i].geom,
                  vals |-> [f \in fields |->
                              IF f = "OrigPlan" THEN shapes[i].plan
                              ELSE <<"doc", name, i>>]]]]

\* the shapes of the rows of a dataset with the given fields
Shapes(fields) ==
    [geom : Geoms, plan : IF "OrigPlan" \in fields THEN PlanValues ELSE {Null}]

StormDatasets(name, n) ==
    {NoDataset} \cup
    UNION { {StormDataset(name, F, s) : s \in SeqsUpTo(Shapes(F), n)} : F \in SUBSET StormFields }

ParcelsDataset == [fields |-> {"PARCEL_NUMBER"}, rows |-> ParcelRows]

\* an output feature class left at the output path by something else
StaleOutput ==
    [fields |-> {"OrigPlan"},
     rows |-> << [oid |-> 1, geom |-> "g1", from |-> <<"stale", 1>>,
                  vals |-> [f \in {"OrigPlan"} |-> <<1>>]] >>]

\* layers a run before this one left behind, selections included
StaleLayers ==
    [n \in LayerNames |->
        [ds |-> resolve_dataset(CatchmentRef, Workspace), where |-> "2",
         hasSel |-> TRUE, sel |-> {1}]]

DefaultArgs(expression) ==
    [expression |-> expression, workspace_gdb |-> Workspace,
     storm_catchment |-> CatchmentRef, storm_cleanout |-> CleanoutRef,
     parcels |-> ParcelsRef, output_fc |-> OutputRef, scratch_gdb |-> NoPath]

Store(parcels, catchment, cleanout, output) ==
    [p \in Paths |->
        CASE p = resolve_dataset(ParcelsRef, Workspace) -> parcels
          [] p = resolve_dataset(CatchmentRef, Workspace) -> catchment
          [] p = resolve_dataset(CleanoutRef, Workspace) -> cleanout
          [] OTHER -> output]

Called_at(a, store, lyrs) ==
    /\ pc = "idle"
    /\ args = a
    /\ env = AmbientEnv
    /\ datasets = store
    /\ initial = store
    /\ layers = lyrs
    /\ field_mappings = <<>>
    /\ out_path = NoPath
    /\ merged = <<>>
    /\ result = NoPath
    /\ err = NoError
    /\ calls = <<>>
    /\ log = <<>>
    /\ history = <<>>
    /\ process = NoProcess

\* any inputs missing, any schemas, few rows, with or without leftovers
Init ==
    \E expression \in Expressions, parcels \in {NoDataset, ParcelsDataset},
       catchment \in StormDatasets("sc", MaxRows), cleanout \in StormDatasets("so", MaxRows),
       output \in {NoDataset, StaleOutput},
       lyrs \in {[n \in LayerNames |-> NoLayer], StaleLayers} :
          Called_at(DefaultArgs(expression), Store(parcels, catchment, cleanout, output), lyrs)

Spec == Init /\ [][Next]_vars

\* plan values named in the order they first appear, over n rows: OrigPlan is
\* only ever compared for equality, so these are all the patterns of repetition
RECURSIVE PlanPatterns(_)
PlanPatterns(n) ==
    IF n = 0 THEN {<<>>}
    ELSE LET top(s) == Cardinality({s[i] : i \in 1..Len(s)})
         IN  UNION { {Append(s, v) : v \in 1..(top(s) + 1)} : s \in PlanPatterns(n - 1) }

\* every input there, both fields in both, no leftovers
Called_with(catchment_shapes, cleanout_shapes) ==
    Called_at(DefaultArgs("1"),
              Store(ParcelsDataset, StormDataset("sc", StormFields, catchment_shapes),
                    StormDataset("so", StormFields, cleanout_shapes), NoDataset),
              [n \in LayerNames |-> NoLayer])

\* rows on or off the selected parcel, few plan values
InitGeoms ==
    \E catchment \in SeqsUpTo(Shapes(StormFields), MaxCatch),
       cleanout \in SeqsUpTo(Shapes(StormFields), MaxClean) :
          Called_with(catchment, cleanout)

\* rows all on the selected parcel, any pattern of equal plan values
InitPlans ==
    \E a \in 0..MaxCatch, b \in 0..MaxClean :
       \E plans \in PlanPatterns(a + b) :
          Called_with([i \in 1..a |-> [geom |-> "g1", plan |-> <<plans[i]>>]],
                      [i \in 1..b |-> [geom |-> "g1", plan |-> <<plans[a + i]>>]])

InitData == InitGeoms \/ InitPlans

SpecData == InitData /\ [][Next]_vars

\* run_of2 at line 133, for any feature class the store may hold at the path Merge
\* returned: any of the storm fields, any rows
OutputDataset(fields, plans) ==
    [fields |-> fields,
     rows |-> [i \in 1..Len(plans) |->
                 [oid |-> i, geom |-> "g1", from |-> <<CatchmentLayer, i>>,
                  vals |-> [f \in fields |->
                              IF f = "OrigPlan" THEN plans[i] ELSE <<"doc", "sc", i>>]]]]

InitDedup ==
    \E fields \in SUBSET StormFields :
       \E plans \in SeqsUpTo(IF "OrigPlan" \in fields THEN PlanValues ELSE {Null}, MaxOut) :
          LET path == resolve_output(OutputRef, Workspace)
              store == Store(ParcelsDataset, StormDataset("sc", fields, <<>>),
                             StormDataset("so", fields, <<>>), OutputDataset(fields, plans))
          IN  /\ pc = "dedup"
              /\ args = DefaultArgs("1")
              /\ env = ManagedEnv
              /\ datasets = store
              /\ initial = [store EXCEPT ![path] = NoDataset]
              /\ layers = [n \in LayerNames |-> NoLayer]
              /\ field_mappings = <<>>
              /\ out_path = path
              /\ merged = store[path].rows
              /\ result = NoPath
              /\ err = NoError
              /\ calls = <<[op |-> "Merge", target |-> path, env |-> ManagedEnv]>>
              /\ log = <<>>
              /\ history = <<>>
              /\ process = NoProcess

NextDedup == Dedup \/ Return

SpecDedup == InitDedup /\ [][NextDedup]_vars

\* output references: a bare name, an absolute path in another geodatabase, a
\* relative path with a directory part, and the name of an input
OutputRefs ==
    { OutputRef,
      <<"/", "Other.gdb", "/", "OF_property_edit">>,
      <<"Other.gdb", "/", "OF_property_edit">>,
      <<"Storm Catchment">> }

OutputPaths == {resolve_output(o, Workspace) : o \in OutputRefs}

\* the store with the output left at the path the output reference resolves to,
\* unless an input is there
StoreAt(parcels, catchment, cleanout, output_fc, output) ==
    [p \in Paths \cup OutputPaths |->
        CASE p = resolve_dataset(ParcelsRef, Workspace) -> parcels
          [] p = resolve_dataset(CatchmentRef, Workspace) -> catchment
          [] p = resolve_dataset(CleanoutRef, Workspace) -> cleanout
          [] p = resolve_output(output_fc, Workspace) -> output
          [] OTHER -> NoDataset]

\* run_of2 called with each output reference, the inputs all there
InitPaths ==
    \E output_fc \in OutputRefs,
       catchment \in StormDatasets("sc", MaxRows) \ {NoDataset},
       cleanout \in StormDatasets("so", MaxRows) \ {NoDataset},
       output \in {NoDataset, StaleOutput} :
          Called_at([DefaultArgs("1") EXCEPT !.output_fc = output_fc],
                    StoreAt(ParcelsDataset, catchment, cleanout, output_fc, output),
                    [n \in LayerNames |-> NoLayer])

SpecPaths == InitPaths /\ [][Next]_vars

\* run_of2 is called again with the same arguments once the first call has
\* returned or raised: the store and the layers are as that call left them, the
\* locals are new
CallAgain ==
    /\ pc \in {"done", "failed"}
    /\ history = <<>>
    /\ history' = <<[pc |-> pc, result |-> result, err |-> err,
                     output |-> IF pc = "done" THEN datasets[result] ELSE NoDataset]>>
    /\ pc' = "idle"
    /\ field_mappings' = <<>>
    /\ out_path' = NoPath
    /\ merged' = <<>>
    /\ result' = NoPath
    /\ err' = NoError
    /\ calls' = <<>>
    /\ log' = <<>>
    /\ UNCHANGED <<args, env, datasets, layers, initial, process>>

\* a first call on inputs that are all there, with or without leftovers
InitTwice ==
    \E catchment \in SeqsUpTo(Shapes(StormFields), MaxRows),
       cleanout \in SeqsUpTo(Shapes(StormFields), MaxRows),
       output \in {NoDataset, StaleOutput},
       lyrs \in {[n \in LayerNames |-> NoLayer], StaleLayers} :
          Called_at(DefaultArgs("1"),
                    Store(ParcelsDataset, StormDataset("sc", StormFields, catchment),
                          StormDataset("so", StormFields, cleanout), output),
                    lyrs)

NextTwice == Next \/ CallAgain

SpecTwice == InitTwice /\ [][NextTwice]_vars

\* the longest reference resolved
MaxRefLen == 3

\* what a reference is made of: the separator, a name, URL prefixes in both cases
RefTokens == {"/", "Parcels", "http://", "HTTPS://"}

\* workspaces as given on the command line: absolute, relative, the root
GivenWorkspaces == {Workspace, <<"Default.gdb">>, <<"/">>}

\* line 87 about to run, for any reference and workspace
InitResolve ==
    \E ref \in SeqsUpTo(RefTokens, MaxRefLen), ws \in GivenWorkspaces :
       /\ pc = "resolve"
       /\ args = [DefaultArgs("1") EXCEPT !.parcels = ref, !.workspace_gdb = ws]
       /\ env = AmbientEnv
       /\ datasets = Store(NoDataset, NoDataset, NoDataset, NoDataset)
       /\ initial = Store(NoDataset, NoDataset, NoDataset, NoDataset)
       /\ layers = [n \in LayerNames |-> NoLayer]
       /\ field_mappings = <<>>
       /\ out_path = NoPath
       /\ merged = <<>>
       /\ result = NoPath
       /\ err = NoError
       /\ calls = <<>>
       /\ log = <<>>
       /\ history = <<>>
       /\ process = NoProcess

\* line 87: resolve_dataset(parcels, workspace_gdb), the value kept in result
Resolve ==
    /\ pc = "resolve"
    /\ pc' = "resolved"
    /\ result' = resolve_dataset(args.parcels, workspace_gdb)
    /\ UNCHANGED <<args, env, datasets, layers, field_mappings, out_path, merged, err,
                   calls, log, initial, history, process>>

\* resolve_dataset applied to what it returned, the value kept in out_path
ResolveAgain ==
    /\ pc = "resolved"
    /\ pc' = "resolved_again"
    /\ out_path' = resolve_dataset(result, workspace_gdb)
    /\ UNCHANGED <<args, env, datasets, layers, field_mappings, merged, result, err,
                   calls, log, initial, history, process>>

NextResolve == Resolve \/ ResolveAgain

SpecResolve == InitResolve /\ [][NextResolve]_vars

(***************************************************************************)
(* main and parse_args, lines 141-215.                                     *)
(***************************************************************************)
\* command lines: one that parses, one argparse rejects, one asking for help
ArgvKinds == {"valid", "invalid", "help"}

\* the process started on a command line; exit_code is <<>> until it ends
Started(argv) ==
    [pc |-> "start", argv |-> argv, exit_code |-> <<>>, stdout |-> <<>>, stderr |-> <<>>]

\* lines 190-205: parse_args, which ends the process on a rejected command
\* line (usage and error on stderr, code 2) and on -h (usage on stdout, code
\* 0); then logging is set up and run_of2 is called inside the try
ParseArgs ==
    /\ process.pc = "start"
    /\ CASE process.argv = "invalid" ->
              /\ process' = [process EXCEPT !.pc = "exited", !.exit_code = <<2>>,
                                            !.stderr = << <<"usage">>, <<"error">> >>]
              /\ pc' = pc
         [] process.argv = "help" ->
              /\ process' = [process EXCEPT !.pc = "exited", !.exit_code = <<0>>,
                                            !.stdout = << <<"usage">> >>]
              /\ pc' = pc
         [] OTHER ->
              /\ process' = [process EXCEPT !.pc = "running"]
              /\ pc' = "idle"
    /\ UNCHANGED <<args, env, datasets, layers, field_mappings, out_path, merged, result,
                   err, calls, log, initial, history>>

\* lines 206-208: run_of2 returned
MainReturn ==
    /\ process.pc = "running"
    /\ pc = "done"
    /\ log' = Append(log, <<"info", "Output written", result>>)
    /\ process' = [process EXCEPT !.pc = "exited", !.exit_code = <<0>>,
                                  !.stdout = Append(process.stdout, result)]
    /\ UNCHANGED <<pc, args, env, datasets, layers, field_mappings, out_path, merged,
                   result, err, calls, initial, history>>

\* MainExcept, but the exception is not logged
MainExcept_silent ==
    /\ process.pc = "running"
    /\ pc = "failed"
    /\ process' = [process EXCEPT !.pc = "exited", !.exit_code = <<1>>]
    /\ UNCHANGED <<pc, args, env, datasets, layers, field_mappings, out_path, merged,
                   result, err, calls, log, initial, history>>

\* lines 209-211: run_of2 raised
MainExcept ==
    /\ process.pc = "running"
    /\ pc = "failed"
    /\ log' = Append(log, <<"error", "OF2 failed", err>>)
    /\ process' = [process EXCEPT !.pc = "exited", !.exit_code = <<1>>]
    /\ UNCHANGED <<pc, args, env, datasets, layers, field_mappings, out_path, merged,
                   result, err, calls, initial, history>>

\* the process started on any command line, over any store
InitMain ==
    \E argv \in ArgvKinds, expression \in Expressions,
       parcels \in {NoDataset, ParcelsDataset},
       catchment \in StormDatasets("sc", MaxRows), cleanout \in StormDatasets("so", MaxRows) :
       /\ pc = "not_called"
       /\ process = Started(argv)
       /\ args = DefaultArgs(expression)
       /\ env = AmbientEnv
       /\ datasets = Store(parcels, catchment, cleanout, NoDataset)
       /\ initial = Store(parcels, catchment, cleanout, NoDataset)
       /\ layers = [n \in LayerNames |-> NoLayer]
       /\ field_mappings = <<>>
       /\ out_path = NoPath
       /\ merged = <<>>
       /\ result = NoPath
       /\ err = NoError
       /\ calls = <<>>
       /\ log = <<>>
       /\ history = <<>>

NextMain == ParseArgs \/ Next \/ MainReturn \/ MainExcept

SpecMain == InitMain /\ [][NextMain]_vars

(***************************************************************************)
(* Properties.                                                             *)
(***************************************************************************)
PathOf(name) == <<"/", "Default.gdb", "/", name>>
OutputPath == PathOf("OF_property_edit")
InputNames == <<"Parcels", "Storm Catchment", "Storm Cleanout">>
Missing(name) == initial[PathOf(name)] = NoDataset
InputsExist == \A i \in 1..3 : ~Missing(InputNames[i])
InitialFields(name) == IF Missing(name) THEN {} ELSE initial[PathOf(name)].fields
InNoSource(f) ==
    f \notin InitialFields("Storm Catchment") /\ f \notin InitialFields("Storm Cleanout")
AfterPlan == {"output", "merge", "dedup", "return", "done"}
AfterMerge == {"dedup", "return", "done"}
OpsCalled == {calls[i].op : i \in 1..Len(calls)}
NoLayers == [n \in LayerNames |-> NoLayer]
\* workspace, scratch (the workspace when none is given), overwrite, parallelism
RunSettings ==
    [workspace |-> <<"/", "Default.gdb">>, scratchWorkspace |-> <<"/", "Default.gdb">>,
     overwriteOutput |-> TRUE, parallelProcessingFactor |-> "100%"]

\* C1: the environment set by EnvManager is in force during every tool call and
\* at every point inside the with block, and is no longer in force once run_of2
\* has returned or raised, whatever the exit.
C1_ContextScoped ==
    /\ pc \in {"done", "failed"} => env = AmbientEnv
    /\ pc \notin {"idle", "done", "failed"} => env = RunSettings
    /\ \A i \in 1..Len(calls) : calls[i].env = RunSettings

C1_Witness ==
    /\ pc = "failed"
    /\ err.kind = "EngineFailure"
    /\ err.name = "SelectLayerByLocation"
    /\ "MakeFeatureLayer" \in OpsCalled
    /\ calls[Len(calls)].env = RunSettings
    /\ env = AmbientEnv

\* C2: when an input dataset is missing, run_of2 raises naming the first missing
\* one in the order parcels, catchment, cleanout, having only asked the store
\* whether the datasets exist, in that order and up to the missing one: no layer
\* and no dataset has been created, deleted or written.
C2_FirstMissingReported ==
    LET first == CHOOSE i \in 1..3 :
                    Missing(InputNames[i]) /\ \A j \in 1..(i - 1) : ~Missing(InputNames[j])
    IN  ((\E i \in 1..3 : Missing(InputNames[i])) /\ pc \notin {"idle", "validate"}) =>
            /\ pc = "failed"
            /\ err = [kind |-> "DatasetNotFound",
                      name |-> <<InputNames[first], PathOf(InputNames[first])>>]
            /\ calls = [i \in 1..first |->
                          [op |-> "Exists", target |-> PathOf(InputNames[i]), env |-> RunSettings]]
            /\ datasets = initial
            /\ layers \in {NoLayers, StaleLayers}
            /\ result = NoPath

C2_Witness ==
    /\ pc = "failed"
    /\ ~Missing("Parcels") /\ Missing("Storm Catchment") /\ Missing("Storm Cleanout")
    /\ err.name = <<"Storm Catchment", PathOf("Storm Catchment")>>
    /\ initial[OutputPath] # NoDataset
    /\ layers = StaleLayers

\* the layers the steps before position p have made
LayersMadeBefore(p) ==
    CASE p \in {"idle", "validate", "parcels_layer"} -> {}
      [] p = "sc_layer" -> {ParcelsLayer}
      [] p = "so_layer" -> {ParcelsLayer, CatchmentLayer}
      [] OTHER -> LayerNames

\* C3: a step that fails ends the run: run_of2 is then in its failed state with
\* nothing returned, the layers made by the earlier steps are still there as
\* they were, and nothing more happens in that run.
C3_FailureAborts ==
    [][ /\ pc # "failed"
        /\ err = NoError
        /\ err' # NoError =>
              /\ pc' = "failed"
              /\ result' = NoPath
              /\ \A n \in LayersMadeBefore(pc) : layers[n] # NoLayer /\ layers'[n] = layers[n]
      ]_vars

C3_Witness ==
    /\ pc = "failed"
    /\ err = [kind |-> "EngineFailure", name |-> "Merge"]
    /\ \A n \in LayerNames : layers[n] # NoLayer
    /\ layers[CleanoutLayer].hasSel
    /\ result = NoPath

\* C4: when all inputs exist and OrigPlan or DocLink is in neither storm dataset,
\* run_of2 fails at the plan step with SchemaMismatch naming the first such
\* field; no field mapping is kept, not even the rule of an earlier field that
\* did match, and the output is neither deleted nor merged.
C4_NoPartialPlan ==
    (InputsExist /\ \E f \in StormFields : InNoSource(f)) =>
        /\ pc \notin AfterPlan
        /\ field_mappings = <<>>
        /\ OpsCalled \cap {"Merge", "DeleteIdentical"} = {}
        /\ datasets = initial
        /\ (pc = "failed" /\ err.kind # "EngineFailure") =>
              err = [kind |-> "SchemaMismatch",
                     name |-> IF InNoSource("OrigPlan") THEN "OrigPlan" ELSE "DocLink"]

C4_Witness ==
    /\ pc = "failed"
    /\ err = [kind |-> "SchemaMismatch", name |-> "DocLink"]
    /\ "OrigPlan" \in InitialFields("Storm Catchment")
    /\ field_mappings = <<>>

\* C5: when all inputs exist and each of OrigPlan and DocLink is in at least one
\* storm dataset, the plan step does not fail and the plan holds exactly two
\* rules, OrigPlan then DocLink, each with its alias and the merge rule First.
C5_OneRulePerField ==
    (InputsExist /\ \A f \in StormFields : ~InNoSource(f)) =>
        /\ err.kind # "SchemaMismatch"
        /\ pc \in AfterPlan =>
              /\ Len(field_mappings) = 2
              /\ field_mappings[1].name = "OrigPlan"
              /\ field_mappings[1].alias = "Original Plan"
              /\ field_mappings[2].name = "DocLink"
              /\ field_mappings[2].alias = "Document Link"
              /\ \A i \in 1..2 : field_mappings[i].mergeRule = "First"

C5_Witness ==
    /\ pc = "done"
    /\ Len(field_mappings) = 2
    /\ Len(field_mappings[1].inputs) = 1
    /\ field_mappings[1].alias = "Original Plan"
    /\ Len(field_mappings[2].inputs) = 2

\* C6: each rule of the plan lists exactly the storm layers whose dataset has the
\* field, catchment before cleanout.  When only the cleanout dataset has DocLink,
\* the DocLink rule has the one candidate and, in what Merge wrote, the rows from
\* catchment have no DocLink and the rows from cleanout have their own.
C6_Candidates ==
    LET expected(f) ==
            (IF f \in InitialFields("Storm Catchment") THEN << <<CatchmentLayer, f>> >> ELSE <<>>)
            \o (IF f \in InitialFields("Storm Cleanout") THEN << <<CleanoutLayer, f>> >> ELSE <<>>)
    IN  /\ pc \in AfterPlan =>
              \A i \in 1..Len(field_mappings) :
                 field_mappings[i].inputs = expected(field_mappings[i].name)
        /\ (/\ pc \in AfterMerge
            /\ "DocLink" \notin InitialFields("Storm Catchment")
            /\ "DocLink" \in InitialFields("Storm Cleanout")) =>
              /\ Len(field_mappings[2].inputs) = 1
              /\ \A i \in 1..Len(merged) :
                    merged[i].vals["DocLink"] =
                       IF merged[i].from[1] = CleanoutLayer
                       THEN initial[PathOf("Storm Cleanout")].rows[merged[i].from[2]].vals["DocLink"]
                       ELSE Null

C6_Witness ==
    /\ pc = "done"
    /\ "DocLink" \notin InitialFields("Storm Catchment")
    /\ field_mappings[2].inputs = << <<CleanoutLayer, "DocLink">> >>
    /\ Len(merged) = 2
    /\ merged[1].from[1] = CatchmentLayer /\ merged[1].vals["DocLink"] = Null
    /\ merged[2].from[1] = CleanoutLayer /\ merged[2].vals["DocLink"] = <<"doc", "so", 1>>

\* the geometries of the parcels the where clause keeps
SelectedGeoms ==
    {ParcelRows[i].geom :
        i \in {k \in 1..Len(ParcelRows) : ParcelRows[k].vals["PARCEL_NUMBER"] = args.expression}}

Hits(name) == SelectSeq(initial[PathOf(name)].rows, LAMBDA r : r.geom \in SelectedGeoms)

ExpectedFrom(name, lyr) ==
    [i \in 1..Len(Hits(name)) |->
        [from |-> <<lyr, Hits(name)[i].oid>>, geom |-> Hits(name)[i].geom,
         vals |-> Hits(name)[i].vals]]

\* C7: what Merge wrote is the catchment rows that intersect a parcel matching
\* the where clause, in their order, followed by the cleanout rows that do, in
\* theirs, each with its own OrigPlan and DocLink, numbered from 1, and nothing
\* else; it is what the output holds until DeleteIdentical runs.
C7_MergeIsConcatenation ==
    (pc \in AfterMerge \/ (pc = "failed" /\ err.name = "DeleteIdentical")) =>
        /\ [i \in 1..Len(merged) |->
              [from |-> merged[i].from, geom |-> merged[i].geom, vals |-> merged[i].vals]]
           = ExpectedFrom("Storm Catchment", CatchmentLayer)
             \o ExpectedFrom("Storm Cleanout", CleanoutLayer)
        /\ \A i \in 1..Len(merged) : merged[i].oid = i
        /\ pc = "dedup" => datasets[out_path].rows = merged

\* one parcel, 2 catchment and 3 cleanout rows on it, 5 rows merged, 4 left
C7_Witness ==
    /\ pc = "done"
    /\ Len(Hits("Storm Catchment")) = 2
    /\ Len(Hits("Storm Cleanout")) = 3
    /\ Len(merged) = 5
    /\ Cardinality({merged[i].vals["OrigPlan"] : i \in 1..5}) = 4
    /\ Len(datasets[result].rows) = 4

\* C8: in the output of a run that returned, when the output has the OrigPlan
\* field, no two rows have the same OrigPlan, each row is the first of the merged
\* rows with its OrigPlan, and every OrigPlan of the merged rows is still there.
C8_DedupLaw ==
    (pc = "done" /\ "OrigPlan" \in datasets[result].fields) =>
        LET out == datasets[result].rows
            plan(r) == r.vals["OrigPlan"]
        IN  /\ \A i, j \in 1..Len(out) : i # j => plan(out[i]) # plan(out[j])
            /\ \A i \in 1..Len(out) :
                  \E k \in 1..Len(merged) :
                     /\ merged[k] = out[i]
                     /\ \A j \in 1..(k - 1) : plan(merged[j]) # plan(out[i])
            /\ \A k \in 1..Len(merged) : \E i \in 1..Len(out) : plan(out[i]) = plan(merged[k])

C8_Witness ==
    /\ pc = "done"
    /\ Len(merged) = 4
    /\ merged[1].from[1] = CatchmentLayer
    /\ merged[3].from[1] = CleanoutLayer
    /\ merged[3].vals["OrigPlan"] = merged[1].vals["OrigPlan"]
    /\ merged[4].vals["OrigPlan"] = merged[2].vals["OrigPlan"]
    /\ merged[2].vals["OrigPlan"] # merged[1].vals["OrigPlan"]
    /\ [i \in 1..Len(datasets[result].rows) |-> datasets[result].rows[i].oid] = <<1, 2>>

\* C9: the dedup step calls DeleteIdentical exactly when OrigPlan is among the
\* fields of the merge output; when it is not, the step logs a warning, leaves
\* the output as Merge wrote it and does not fail, and run_of2 returns the path.
C9_DedupOnlyWithKey ==
    LET fields == datasets[out_path].fields
        warned == \E i \in 1..Len(log) : log[i][1] = "warning"
    IN  /\ pc \in {"return", "done", "failed"} =>
              /\ "DeleteIdentical" \in OpsCalled <=> "OrigPlan" \in fields
              /\ warned <=> "OrigPlan" \notin fields
        /\ (pc \in {"return", "done", "failed"} /\ "OrigPlan" \notin fields) =>
              /\ pc # "failed"
              /\ datasets[out_path].rows = merged
        /\ pc = "done" => result = out_path

C9_Witness ==
    /\ pc = "done"
    /\ "OrigPlan" \notin datasets[out_path].fields
    /\ "DocLink" \in datasets[out_path].fields
    /\ Len(datasets[out_path].rows) = 2
    /\ \E i \in 1..Len(log) : log[i][1] = "warning"
    /\ "DeleteIdentical" \notin OpsCalled
    /\ result = out_path

\* C10: a dataset that is at the output path when the output step is reached is
\* deleted before Merge is called, so Merge writes to a path where nothing is,
\* and after a run that returned the output holds only rows Merge wrote in this
\* run, none of the rows that were there before.
C10_OutputReplaced ==
    LET index(op) == CHOOSE i \in 1..Len(calls) : calls[i].op = op /\ calls[i].target = OutputPath
    IN  /\ pc = "merge" => datasets[out_path] = NoDataset
        /\ ("Merge" \in OpsCalled /\ initial[OutputPath] # NoDataset) =>
              /\ \E i \in 1..Len(calls) : calls[i].op = "Delete" /\ calls[i].target = OutputPath
              /\ index("Delete") < index("Merge")
        /\ pc = "done" =>
              \A i \in 1..Len(datasets[result].rows) :
                 /\ datasets[result].rows[i].from[1] \in {CatchmentLayer, CleanoutLayer}
                 /\ \E k \in 1..Len(merged) : merged[k] = datasets[result].rows[i]

C10_Witness ==
    /\ pc = "done"
    /\ initial[OutputPath] = StaleOutput
    /\ Len(datasets[result].rows) = 2
    /\ datasets[result].fields = StormFields

\* the calls a step adds
NewCalls == SubSeq(calls', Len(calls) + 1, Len(calls'))
\* one Layer-ify step on the layer name: a layer found under the name is
\* deleted before any layer is made, and the layer made is a fresh one
Layerify(name, dataset_path, where) ==
    /\ LayerExists(name) =>
          /\ Len(NewCalls) >= 2
          /\ NewCalls[1].op = "Exists" /\ NewCalls[1].target = <<name>>
          /\ NewCalls[2].op = "Delete" /\ NewCalls[2].target = <<name>>
          /\ \A i \in 1..Len(NewCalls) : NewCalls[i].op = "MakeFeatureLayer" => i = 3
    /\ pc' # "failed" =>
          /\ NewCalls[Len(NewCalls)].op = "MakeFeatureLayer"
          /\ layers'[name] =
                [ds |-> dataset_path, where |-> where, hasSel |-> FALSE, sel |-> {}]
\* the layers once all three are made: their dataset and filter are this run's
LayersOfThisRun ==
    /\ layers[ParcelsLayer] =
          [ds |-> PathOf("Parcels"), where |-> args.expression, hasSel |-> FALSE, sel |-> {}]
    /\ layers[CatchmentLayer].ds = PathOf("Storm Catchment") /\ layers[CatchmentLayer].where = ""
    /\ layers[CleanoutLayer].ds = PathOf("Storm Cleanout") /\ layers[CleanoutLayer].where = ""

\* C12: for each of the three layer names, a layer of that name found when the
\* run reaches Layer-ify is deleted before the layer is made again, and the layer
\* made carries this run's dataset and predicate and no selection or filter of
\* the earlier run: the parcels layer is filtered by the predicate, the
\* catchment and cleanout layers are not filtered.
C12_StaleLayerReplaced ==
    [][ /\ pc = "parcels_layer" => Layerify(ParcelsLayer, PathOf("Parcels"), args.expression)
        /\ pc = "sc_layer" => Layerify(CatchmentLayer, PathOf("Storm Catchment"), "")
        /\ pc = "so_layer" => Layerify(CleanoutLayer, PathOf("Storm Cleanout"), "")
        /\ pc' \in {"select", "count", "plan"} \cup AfterPlan => LayersOfThisRun' ]_vars

C12_Witness ==
    /\ pc = "select"
    /\ \A n \in LayerNames :
          \E i \in 1..Len(calls) :
             /\ calls[i].op = "Delete" /\ calls[i].target = <<n>>
             /\ calls[i + 1].op = "MakeFeatureLayer" /\ calls[i + 1].target = <<n>>
    /\ layers # StaleLayers
    /\ layers[ParcelsLayer].where = "1"
    /\ \A n \in LayerNames : ~layers[n].hasSel

\* the predicate keeps no parcel
NoParcelMatches ==
    /\ ~Missing("Parcels")
    /\ \A i \in 1..Len(initial[PathOf("Parcels")].rows) :
          ~Satisfies(initial[PathOf("Parcels")].rows[i], args.expression)

\* C13: when the predicate matches no parcel, the spatial selection leaves no
\* active feature on the catchment layer and none on the cleanout layer, and the
\* run goes on: it merges and returns an output with no records and the fields
\* OrigPlan and DocLink; it fails only when a tool fails or a wanted field is in
\* neither source, never because a count is zero.
C13_EmptySelectionSucceeds ==
    (InputsExist /\ NoParcelMatches) =>
       /\ pc \in {"count", "plan"} \cup AfterPlan =>
             /\ ActiveRows(layers[CatchmentLayer]) = <<>>
             /\ ActiveRows(layers[CleanoutLayer]) = <<>>
       /\ pc = "plan" => <<"info", 0, 0>> = log[Len(log)]
       /\ pc \in AfterMerge =>
             /\ merged = <<>>
             /\ datasets[out_path] = [fields |-> StormFields, rows |-> <<>>]
       /\ pc = "done" => result = OutputPath /\ datasets[result].rows = <<>>
       /\ pc = "failed" =>
             \/ err.kind = "EngineFailure"
             \/ err.kind = "SchemaMismatch" /\ InNoSource(err.name)

C13_Witness ==
    /\ pc = "done"
    /\ NoParcelMatches
    /\ initial[PathOf("Storm Catchment")].rows # <<>>
    /\ initial[PathOf("Storm Cleanout")].rows # <<>>
    /\ \E i \in 1..Len(log) : log[i] = <<"info", 0, 0>>
    /\ datasets[result] = [fields |-> StormFields, rows |-> <<>>]

\* the run failed before it came to the output path: an input is missing, a
\* layer could not be made, the selection failed or a field is in no source
FailedBeforeOutput ==
    /\ pc = "failed"
    /\ \/ err.kind \in {"DatasetNotFound", "SchemaMismatch"}
       \/ err.kind = "EngineFailure" /\ calls[Len(calls)].target \notin DOMAIN datasets

\* C17: the only dataset the run deletes is the one at the resolved output
\* path, and it does so only after the three inputs were validated, the three
\* layers made, the spatial selection done and the field mapping plan built: a
\* run that fails with DatasetNotFound, in making a layer, in the spatial
\* selection or with SchemaMismatch leaves a dataset that was at the output
\* path as it was.
C17_OutputDeletedLast ==
    LET before(i, op) == {k \in 1..(i - 1) : calls[k].op = op}
    IN  /\ \A i \in 1..Len(calls) :
              (calls[i].op = "Delete" /\ calls[i].target \in DOMAIN datasets) =>
                 /\ calls[i].target = OutputPath
                 /\ {calls[k].target : k \in before(i, "Exists")} \cap DOMAIN datasets
                       = {PathOf(InputNames[n]) : n \in 1..3} \cup {OutputPath}
                 /\ {calls[k].target : k \in before(i, "MakeFeatureLayer")}
                       = {<<n>> : n \in LayerNames}
                 /\ before(i, "SelectLayerByLocation") # {}
                 /\ field_mappings # <<>>
        /\ \A p \in DOMAIN datasets \ {OutputPath} :
              datasets[p] = NoDataset => initial[p] = NoDataset
        /\ (FailedBeforeOutput \/ pc \in {"idle", "validate", "parcels_layer", "sc_layer",
                                          "so_layer", "select", "count", "plan", "output"}) =>
              datasets[OutputPath] = initial[OutputPath]

C17_Witness ==
    /\ FailedBeforeOutput
    /\ err.kind = "SchemaMismatch"
    /\ "SelectLayerByLocation" \in OpsCalled
    /\ initial[OutputPath] = StaleOutput
    /\ datasets[OutputPath] = StaleOutput

\* the output path is none of the three input paths
OutputApart ==
    resolve_output(args.output_fc, workspace_gdb) \notin {parcels_path, sc_path, so_path}

\* C18: when the resolved output path differs from the resolved paths of
\* parcels, catchment and cleanout, no run, returned or failed, deletes an input
\* dataset or changes its records or schema: the only dataset path Delete and
\* Merge are given, and the only dataset that differs from what it was at the
\* call, is the one at the output path.
C18_InputsUntouched ==
    OutputApart =>
       /\ \A p \in {parcels_path, sc_path, so_path} : datasets[p] = initial[p]
       /\ \A i \in 1..Len(calls) :
             (calls[i].op \in {"Delete", "Merge"} /\ calls[i].target \in DOMAIN datasets) =>
                calls[i].target = resolve_output(args.output_fc, workspace_gdb)
       /\ \A p \in DOMAIN datasets :
             datasets[p] # initial[p] => p = resolve_output(args.output_fc, workspace_gdb)

C18_Witness ==
    /\ pc = "done"
    /\ OutputApart
    /\ args.output_fc = <<"/", "Other.gdb", "/", "OF_property_edit">>
    /\ result = args.output_fc
    /\ initial[result] = StaleOutput
    /\ merged # <<>>
    /\ datasets[result].rows = merged
    /\ datasets[sc_path] = initial[sc_path]

\* the OrigPlan values of the rows
PlansOf(rows) == {rows[i].vals["OrigPlan"] : i \in 1..Len(rows)}

\* C11: when run_of2 is run twice in a row with the same arguments on unchanged
\* inputs and both runs return, the output after the second run has as many
\* features and the same set of OrigPlan values as after the first; whatever the
\* first run left behind, layers and output, the second run's output is the one
\* the inputs determine: one row per OrigPlan value among the storm rows that
\* intersect a matching parcel.
C11_RerunSameResult ==
    (pc = "done" /\ history # <<>>) =>
       LET out == datasets[result]
           hits == Hits("Storm Catchment") \o Hits("Storm Cleanout")
       IN  /\ \A p \in {parcels_path, sc_path, so_path} : datasets[p] = initial[p]
           /\ history[1].pc = "done" =>
                 /\ result = history[1].result
                 /\ Len(out.rows) = Len(history[1].output.rows)
                 /\ PlansOf(out.rows) = PlansOf(history[1].output.rows)
           /\ PlansOf(out.rows) = PlansOf(hits)
           /\ Len(out.rows) = Cardinality(PlansOf(hits))

C11_Witness ==
    /\ pc = "done"
    /\ history # <<>>
    /\ history[1].pc = "done"
    /\ Len(history[1].output.rows) = 1
    /\ Len(merged) = 2
    /\ datasets[result] = history[1].output
    /\ initial[OutputPath] = NoDataset

\* a reference that starts at the root
IsAbsolute(ref) == ref # <<>> /\ Head(ref) = "/"
\* a reference that starts with http:// or https://, in any letter case
UrlPrefixed(ref) == ref # <<>> /\ Head(ref) \in {"http://", "https://", "HTTP://", "HTTPS://", "Http://"}
\* the workspace root the run resolves against
WorkspaceRoot ==
    IF Head(args.workspace_gdb) = "/" THEN args.workspace_gdb
    ELSE <<"/", "home", "/">> \o args.workspace_gdb

\* C14: a reference that is an absolute path or starts with a URL prefix is
\* returned unchanged; any other reference is returned joined to the workspace
\* root: the root, one separator unless the root ends with one, the reference.
C14_ResolveCases ==
    pc \in {"resolved", "resolved_again"} =>
       IF IsAbsolute(args.parcels) \/ UrlPrefixed(args.parcels)
       THEN result = args.parcels
       ELSE result = WorkspaceRoot
                     \o (IF WorkspaceRoot[Len(WorkspaceRoot)] = "/" THEN <<>> ELSE <<"/">>)
                     \o args.parcels

C14_Witness ==
    /\ pc = "resolved"
    /\ args.parcels = <<"HTTPS://", "Parcels", "/">>
    /\ args.workspace_gdb = Workspace
    /\ result = <<"HTTPS://", "Parcels", "/">>

\* C15: resolving is idempotent: resolving what resolve returned, against the
\* same workspace root, returns it unchanged.
C15_ResolveIdempotent ==
    pc = "resolved_again" => out_path = result

C15_Witness ==
    /\ pc = "resolved_again"
    /\ args.parcels = <<"Parcels">>
    /\ args.workspace_gdb = <<"Default.gdb">>
    /\ result = <<"/", "home", "/", "Default.gdb", "/", "Parcels">>
    /\ out_path = result

\* an error was logged
ErrorLogged == \E i \in 1..Len(log) : log[i][1] = "error"

\* C16 as stated: the process ends with exit code 0 exactly when the pipeline
\* returned, the output reference then printed; on any failure, a rejected
\* command line included, it ends with exit code 1, the error logged and no
\* output reference printed.
C16_AsStated ==
    process.pc = "exited" =>
       /\ process.exit_code = <<0>> <=> pc = "done"
       /\ pc = "done" => process.stdout = <<result>>
       /\ pc # "done" =>
             /\ process.exit_code = <<1>>
             /\ ErrorLogged
             /\ process.stdout = <<>>

\* C16: when the command line parses, the process ends with exit code 0 exactly
\* when run_of2 returned, the output reference then printed on standard output
\* and no error logged, and with exit code 1 when run_of2 raised, the error
\* logged last and nothing printed; a rejected command line ends the process in
\* parse_args with exit code 2 and a request for help with exit code 0, run_of2
\* not called, nothing logged and no output reference printed.
C16_ExitCodes ==
    /\ process.pc # "exited" => process.exit_code = <<>> /\ process.stdout = <<>>
    /\ process.pc = "exited" =>
          CASE process.argv = "invalid" ->
                  /\ process.exit_code = <<2>>
                  /\ pc = "not_called" /\ calls = <<>> /\ log = <<>>
                  /\ process.stdout = <<>>
            [] process.argv = "help" ->
                  /\ process.exit_code = <<0>>
                  /\ pc = "not_called" /\ calls = <<>> /\ log = <<>>
                  /\ process.stdout = << <<"usage">> >>
            [] OTHER ->
                  /\ pc \in {"done", "failed"}
                  /\ process.exit_code = <<0>> <=> pc = "done"
                  /\ pc = "done" => process.stdout = <<result>> /\ ~ErrorLogged
                  /\ pc = "failed" =>
                        /\ process.exit_code = <<1>>
                        /\ log # <<>>
                        /\ log[Len(log)][1] = "error" /\ log[Len(log)][3] = err
                        /\ process.stdout = <<>>

C16_Witness ==
    /\ process.pc = "exited"
    /\ process.argv = "valid"
    /\ pc = "failed"
    /\ err.kind = "SchemaMismatch"
    /\ process.exit_code = <<1>>
    /\ ErrorLogged
    /\ process.stdout = <<>>

====
